---- MODULE Spec2Model ----
(***************************************************************************)
(* iostatserv: one sampler goroutine per configured block device reads     *)
(* /sys/block/<dev>/stat every sampleInterval, turns the counter deltas    *)
(* into per-second rates (int64 arithmetic) and stores the snapshot in an  *)
(* atomic.Value; the HTTP handler loads every slot and answers with JSON.  *)
(***************************************************************************)
EXTENDS Integers, Sequences, FiniteSets, TLC

(***************************************************************************)
(* Integer arithmetic.  Go's int64 does not fit the model checker's        *)
(* integers, so an integer is a record [neg, mag]: a sign and a magnitude  *)
(* written as little-endian digits in base 2^15, without leading zero      *)
(* digits (zero is [neg |-> FALSE, mag |-> <<>>]).  The Z operators are    *)
(* exact; the I64 operators are Go's: exact, then wrapped to 64 bits.      *)
(***************************************************************************)
Base == 2^15

Min(a, b) == IF a <= b THEN a ELSE b

Digit(s, i) == IF i <= Len(s) THEN s[i] ELSE 0

RECURSIVE NNorm(_)
NNorm(s) ==
    IF s = <<>> THEN <<>>
    ELSE IF s[Len(s)] = 0 THEN NNorm(SubSeq(s, 1, Len(s) - 1))
    ELSE s

RECURSIVE NCmpFrom(_, _, _)
NCmpFrom(a, b, i) ==
    IF i = 0 THEN 0
    ELSE IF a[i] < b[i] THEN -1
    ELSE IF a[i] > b[i] THEN 1
    ELSE NCmpFrom(a, b, i - 1)

\* -1, 0 or 1 as a < b, a = b, a > b (both without leading zero digits)
NCmp(a, b) ==
    IF Len(a) < Len(b) THEN -1
    ELSE IF Len(a) > Len(b) THEN 1
    ELSE NCmpFrom(a, b, Len(a))

RECURSIVE NAddFrom(_, _, _, _)
NAddFrom(a, b, i, c) ==
    IF i > Len(a) /\ i > Len(b)
    THEN IF c = 0 THEN <<>> ELSE <<c>>
    ELSE LET s == Digit(a, i) + Digit(b, i) + c
         IN  <<s % Base>> \o NAddFrom(a, b, i + 1, s \div Base)

NAdd(a, b) == NAddFrom(a, b, 1, 0)

RECURSIVE NSubFrom(_, _, _, _)
NSubFrom(a, b, i, br) ==
    IF i > Len(a) THEN <<>>
    ELSE LET d == a[i] - Digit(b, i) - br
         IN  IF d < 0 THEN <<d + Base>> \o NSubFrom(a, b, i + 1, 1)
             ELSE <<d>> \o NSubFrom(a, b, i + 1, 0)

\* a - b for a >= b
NSub(a, b) == NNorm(NSubFrom(a, b, 1, 0))

RECURSIVE NMulDigitFrom(_, _, _, _)
NMulDigitFrom(a, k, i, c) ==
    IF i > Len(a)
    THEN IF c = 0 THEN <<>> ELSE <<c>>
    ELSE LET p == a[i] * k + c
         IN  <<p % Base>> \o NMulDigitFrom(a, k, i + 1, p \div Base)

\* a * k for one digit k
NMulDigit(a, k) == IF k = 0 THEN <<>> ELSE NMulDigitFrom(a, k, 1, 0)

\* a * Base
NShift(a) == IF a = <<>> THEN <<>> ELSE <<0>> \o a

RECURSIVE NMulFrom(_, _, _)
NMulFrom(a, b, j) ==
    IF j > Len(b) THEN <<>>
    ELSE NAdd(NMulDigit(a, b[j]), NShift(NMulFrom(a, b, j + 1)))

NMul(a, b) == IF a = <<>> \/ b = <<>> THEN <<>> ELSE NMulFrom(a, b, 1)

\* the largest q with q * d <= r, searched downwards from the estimate q
RECURSIVE NQuoDigit(_, _, _)
NQuoDigit(r, d, q) ==
    IF NCmp(NMulDigit(d, q), r) <= 0 THEN q ELSE NQuoDigit(r, d, q - 1)

\* long division of the digits n[1..i] (most significant first) by d, the
\* running remainder being r < d; the quotient's digits, little-endian
RECURSIVE NDivFrom(_, _, _, _)
NDivFrom(n, d, i, r) ==
    IF i = 0 THEN <<>>
    ELSE LET r1  == NNorm(<<n[i]>> \o r)
             k   == Len(d)
             est == Min(Base - 1,
                        (Digit(r1, k + 1) * Base + Digit(r1, k)) \div d[k])
             q   == IF NCmp(r1, d) < 0 THEN 0 ELSE NQuoDigit(r1, d, est)
         IN  NDivFrom(n, d, i - 1, NSub(r1, NMulDigit(d, q))) \o <<q>>

\* n \div d for d # 0; both are scaled first so that d's leading digit is at
\* least Base/2, which keeps the digit estimate within 2 of the digit
NDiv(n, d) ==
    LET f  == Base \div (d[Len(d)] + 1)
        n1 == NMulDigit(n, f)
        d1 == NMulDigit(d, f)
    IN  NNorm(NDivFrom(n1, d1, Len(n1), <<>>))

RECURSIVE NOf(_)
NOf(n) == IF n = 0 THEN <<>> ELSE <<n % Base>> \o NOf(n \div Base)

Z(n) == IF n < 0 THEN [neg |-> TRUE, mag |-> NOf(-n)]
        ELSE [neg |-> FALSE, mag |-> NOf(n)]

ZMk(neg, mag) == [neg |-> neg /\ mag # <<>>, mag |-> mag]

ZNeg(a) == ZMk(~a.neg, a.mag)

ZAdd(a, b) ==
    IF a.neg = b.neg THEN ZMk(a.neg, NAdd(a.mag, b.mag))
    ELSE IF NCmp(a.mag, b.mag) >= 0 THEN ZMk(a.neg, NSub(a.mag, b.mag))
    ELSE ZMk(b.neg, NSub(b.mag, a.mag))

ZSub(a, b) == ZAdd(a, ZNeg(b))

ZMul(a, b) == ZMk(a.neg # b.neg, NMul(a.mag, b.mag))

\* the quotient truncated toward zero (Go's /), for b # 0
ZQuo(a, b) == ZMk(a.neg # b.neg, NDiv(a.mag, b.mag))

ZLess(a, b) ==
    IF a.neg # b.neg THEN a.neg
    ELSE IF a.neg THEN NCmp(a.mag, b.mag) > 0
    ELSE NCmp(a.mag, b.mag) < 0

ZLeq(a, b) == a = b \/ ZLess(a, b)

\* 2^63 and 2^64 as magnitudes: 63 = 4 * 15 + 3, 64 = 4 * 15 + 4
Two63 == <<0, 0, 0, 0, 8>>

Two64 == <<0, 0, 0, 0, 16>>

MinInt64 == [neg |-> TRUE, mag |-> Two63]

MaxInt64 == [neg |-> FALSE, mag |-> NSub(Two63, <<1>>)]

\* mag mod 2^64
NMod64(m) ==
    NNorm([i \in 1..Min(Len(m), 5) |-> IF i = 5 THEN m[i] % 16 ELSE m[i]])

\* the int64 that a two's-complement machine keeps of the exact integer a
Wrap64(a) ==
    LET m == NMod64(a.mag)
        u == IF a.neg /\ m # <<>> THEN NSub(Two64, m) ELSE m
    IN  IF NCmp(u, Two63) >= 0 THEN ZMk(TRUE, NSub(Two64, u))
        ELSE ZMk(FALSE, u)

IsInt64(a) == ZLeq(MinInt64, a) /\ ZLeq(a, MaxInt64)

I64Sub(a, b) == Wrap64(ZSub(a, b))

I64Mul(a, b) == Wrap64(ZMul(a, b))

I64Quo(a, b) == Wrap64(ZQuo(a, b))

(***************************************************************************)
(* Text.  A Go string is a sequence of one-character strings.              *)
(***************************************************************************)
DigitChars == <<"0", "1", "2", "3", "4", "5", "6", "7", "8", "9">>

IsDigit(c) == \E d \in 1..10 : DigitChars[d] = c

DigitVal(c) == (CHOOSE d \in 1..10 : DigitChars[d] = c) - 1

\* unicode.IsSpace on the characters the model writes
IsSpace(c) == c \in {" ", "\t", "\n", "\r"}

RECURSIVE TrimLeft(_)
TrimLeft(t) ==
    IF t # <<>> /\ IsSpace(Head(t)) THEN TrimLeft(Tail(t)) ELSE t

RECURSIVE TrimRight(_)
TrimRight(t) ==
    IF t # <<>> /\ IsSpace(t[Len(t)])
    THEN TrimRight(SubSeq(t, 1, Len(t) - 1))
    ELSE t

\* strings.TrimSpace
TrimSpace(t) == TrimRight(TrimLeft(t))

\* strings.HasPrefix
HasPrefix(t, p) == Len(t) >= Len(p) /\ SubSeq(t, 1, Len(p)) = p

\* strings.Split(t, sep) for a one-character sep: the pieces between the
\* separators, empty pieces kept; the empty string gives one empty piece
RECURSIVE SplitFrom(_, _, _)
SplitFrom(t, sep, piece) ==
    IF t = <<>> THEN <<piece>>
    ELSE IF Head(t) = sep THEN <<piece>> \o SplitFrom(Tail(t), sep, <<>>)
    ELSE SplitFrom(Tail(t), sep, Append(piece, Head(t)))

Split(t, sep) == SplitFrom(t, sep, <<>>)

Range(s) == {s[i] : i \in DOMAIN s}

(***************************************************************************)
(* Program constants.                                                      *)
(***************************************************************************)
\* time.Second, in nanoseconds (a time.Duration is an int64 of nanoseconds)
Second == 10^9

\* bytes per sector
SectorSize == 512

\* the fields of one reading: [11]int64
NumFields == 11

DefaultPort == <<":", "8", "0", "8", "0">>

DefaultDevices == <<"s", "d", "a">>

(***************************************************************************)
(* main's normalisation of the flag values (lines 41-51).                  *)
(***************************************************************************)
NormPort(p) ==
    LET t == TrimSpace(p)
    IN  IF ~HasPrefix(t, <<":">>) THEN <<":">> \o t ELSE t

NormDevices(d) ==
    LET t == TrimSpace(d)
    IN  IF Len(t) = 0 THEN DefaultDevices ELSE t

\* only a negative interval replaced
NormIntervalStrict(i) == IF ZLess(i, Z(0)) THEN Z(Second) ELSE i

NormInterval(i) == IF ZLeq(i, Z(0)) THEN Z(Second) ELSE i

(***************************************************************************)
(* fmt.Fscanf(r, "%d", &x) on the unread text t of the reader.             *)
(***************************************************************************)
\* ss.SkipSpace with nlIsSpace = FALSE: a newline is an error, a carriage
\* return directly before a newline is dropped, end of input just returns
RECURSIVE SkipSpace(_)
SkipSpace(t) ==
    IF t = <<>> THEN [ok |-> TRUE, rest |-> t]
    ELSE IF Head(t) = "\r" /\ Len(t) >= 2 /\ t[2] = "\n" THEN SkipSpace(Tail(t))
    ELSE IF Head(t) = "\n" THEN [ok |-> FALSE, rest |-> Tail(t)]
    ELSE IF IsSpace(Head(t)) THEN SkipSpace(Tail(t))
    ELSE [ok |-> TRUE, rest |-> t]

\* the length of the longest prefix of t made of digits
RECURSIVE DigitRun(_)
DigitRun(t) ==
    IF t # <<>> /\ IsDigit(Head(t)) THEN 1 + DigitRun(Tail(t)) ELSE 0

\* the value of a sequence of decimal digits
RECURSIVE DecimalValue(_)
DecimalValue(ds) ==
    IF ds = <<>> THEN <<>>
    ELSE NAdd(NMulDigit(DecimalValue(SubSeq(ds, 1, Len(ds) - 1)), 10),
              NOf(DigitVal(ds[Len(ds)])))

\* ss.scanInt for the verb d and 64 bits: optional sign, at least one digit,
\* strconv.ParseInt(tok, 10, 64), which fails outside the int64 range
ScanInt(t) ==
    LET sk   == SkipSpace(t)
        t1   == sk.rest
        sgn  == t1 # <<>> /\ Head(t1) \in {"+", "-"}
        t2   == IF sgn THEN Tail(t1) ELSE t1
        n    == DigitRun(t2)
        v    == ZMk(sgn /\ Head(t1) = "-", DecimalValue(SubSeq(t2, 1, n)))
    IN  IF ~sk.ok \/ t1 = <<>> \/ n = 0 \/ ~IsInt64(v)
        THEN [ok |-> FALSE, val |-> Z(0), rest |-> t2]
        ELSE [ok |-> TRUE, val |-> v, rest |-> SubSeq(t2, n + 1, Len(t2))]

\* readStat: NumFields times Fscanf "%d"; any error panics (ok = FALSE)
RECURSIVE ReadFields(_, _)
ReadFields(t, acc) ==
    IF Len(acc) = NumFields THEN [ok |-> TRUE, cur |-> acc, rest |-> t]
    ELSE LET f == ScanInt(t)
         IN  IF f.ok THEN ReadFields(f.rest, Append(acc, f.val))
             ELSE [ok |-> FALSE, cur |-> acc, rest |-> f.rest]

readStat(t) == ReadFields(t, <<>>)

(***************************************************************************)
(* The kernel's side: the text of /sys/block/<dev>/stat for given counter  *)
(* values, one line of space-separated decimal numbers.                    *)
(***************************************************************************)
RECURSIVE Decimal(_)
Decimal(n) ==
    IF n < 10 THEN <<DigitChars[n + 1]>>
    ELSE Append(Decimal(n \div 10), DigitChars[(n % 10) + 1])

RECURSIVE JoinFields(_)
JoinFields(vals) ==
    IF vals = <<>> THEN <<>>
    ELSE <<" ">> \o Decimal(Head(vals)) \o JoinFields(Tail(vals))

StatLine(vals) == JoinFields(vals) \o <<"\n">>

(***************************************************************************)
(* The rate computation of one tick (lines 104-114).  A reading is a       *)
(* sequence of NumFields integers; Field(r, n) is Go's r[n].               *)
(***************************************************************************)
Field(r, n) == r[n + 1]

\* a quotient rounded to the nearest integer instead of truncated
PerSecondRounded(delta, interval) ==
    I64Quo(ZAdd(I64Mul(delta, Z(Second)), ZQuo(interval, Z(2))), interval)

\* delta * int64(time.Second) / int64(sampleInterval), in int64
PerSecond(delta, interval) == I64Quo(I64Mul(delta, Z(Second)), interval)

\* (cur[n] - prev[n]) * 512, in int64
Bytes(prev, cur, n) ==
    I64Mul(I64Sub(Field(cur, n), Field(prev, n)), Z(SectorSize))

InFlightDelta(prev, cur) == I64Sub(Field(cur, 8), Field(prev, 8))

InFlight(prev, cur) == Field(cur, 8)

Stats(prev, cur, interval, ts) ==
    [Timestamp          |-> ts,
     ReadsPerSec        |-> PerSecond(I64Sub(Field(cur, 0), Field(prev, 0)), interval),
     BytesReadPerSec    |-> PerSecond(Bytes(prev, cur, 2), interval),
     ReadMillis         |-> PerSecond(I64Sub(Field(cur, 3), Field(prev, 3)), interval),
     WritesPerSec       |-> PerSecond(I64Sub(Field(cur, 4), Field(prev, 4)), interval),
     BytesWrittenPerSec |-> PerSecond(Bytes(prev, cur, 6), interval),
     WriteMillis        |-> PerSecond(I64Sub(Field(cur, 7), Field(prev, 7)), interval),
     InFlight           |-> InFlight(prev, cur),
     WaitMillis         |-> PerSecond(I64Sub(Field(cur, 10), Field(prev, 10)), interval)]

\* the seven fields that are rates
RateFields ==
    {"ReadsPerSec", "BytesReadPerSec", "ReadMillis", "WritesPerSec",
     "BytesWrittenPerSec", "WriteMillis", "WaitMillis"}

RateOf(s, f) ==
    CASE f = "ReadsPerSec" -> s.ReadsPerSec
      [] f = "BytesReadPerSec" -> s.BytesReadPerSec
      [] f = "ReadMillis" -> s.ReadMillis
      [] f = "WritesPerSec" -> s.WritesPerSec
      [] f = "BytesWrittenPerSec" -> s.BytesWrittenPerSec
      [] f = "WriteMillis" -> s.WriteMillis
      [] f = "WaitMillis" -> s.WaitMillis

(***************************************************************************)
(* atomic.Value: a slot is <<>> (nothing stored, Load returns nil) or      *)
(* <<s>> for the stored snapshot s.                                        *)
(***************************************************************************)
Nil == <<>>

\* a store that writes the fields one after the other, caught half-way
StoreTorn(old, s) ==
    IF old = Nil THEN <<s>>
    ELSE <<[s EXCEPT !.InFlight = old[1].InFlight,
                     !.WaitMillis = old[1].WaitMillis]>>

\* a store that keeps the first value
StoreOnce(old, s) == IF old = Nil THEN <<s>> ELSE old

\* lastSample.Store(stats)
Store(old, s) == <<s>>

\* a load that finds nothing
LoadNil(slot) == Nil

\* value.Load()
Load(slot) == slot

(***************************************************************************)
(* The response (lines 141-143): json.Marshal(m), the header, w.Write(b).  *)
(* A JSON value is a record with its kind: an object has members, for a    *)
(* map by key, for a struct as the sequence of the exported fields in the  *)
(* order of declaration.                                                   *)
(***************************************************************************)
\* the fields of ioStats as declared
ioStatsFields ==
    <<"Timestamp", "ReadsPerSec", "BytesReadPerSec", "ReadMillis",
      "WritesPerSec", "BytesWrittenPerSec", "WriteMillis", "InFlight",
      "WaitMillis">>

\* struct tags that name the fields as words joined by hyphens
TagHyphened(f) ==
    CASE f = "Timestamp" -> "timestamp"
      [] f = "ReadsPerSec" -> "reads-per-second"
      [] f = "BytesReadPerSec" -> "bytes-read-per-second"
      [] f = "ReadMillis" -> "read-wait-milliseconds"
      [] f = "WritesPerSec" -> "writes-per-second"
      [] f = "BytesWrittenPerSec" -> "bytes-written-per-second"
      [] f = "WriteMillis" -> "write-wait-milliseconds"
      [] f = "InFlight" -> "in-flight"
      [] f = "WaitMillis" -> "queue-wait-milliseconds"

\* the json struct tag of field f: ioStats declares none
Tag(f) == ""

\* encoding/json names a member by the tag, or by the field's name
JSONName(f) == IF Tag(f) = "" THEN f ELSE Tag(f)

\* a time.Time is encoded as a string (RFC 3339), an int64 as a number
MarshalField(s, f) ==
    IF f = "Timestamp" THEN [kind |-> "string", time |-> s[f]]
    ELSE [kind |-> "number", val |-> s[f]]

MarshalStats(s) ==
    [kind    |-> "object",
     members |-> [i \in 1..Len(ioStatsFields) |->
                     [name  |-> JSONName(ioStatsFields[i]),
                      value |-> MarshalField(s, ioStatsFields[i])]]]

\* json.Marshal(m) for m of type map[string]ioStats
Marshal(m) ==
    [kind    |-> "object",
     members |-> [name \in DOMAIN m |-> MarshalStats(m[name])]]

\* the first w.Write sends the status line with http.StatusOK
StatusOK == 200

\* a handler that reports an error while there is nothing to show
RespondOrUnavailable(m) ==
    IF DOMAIN m = {}
    THEN [status |-> 503, header |-> <<>>, body |-> <<>>]
    ELSE [status |-> StatusOK,
          header |-> [n \in {"Content-Type"} |-> "application/json"],
          body   |-> Marshal(m)]

\* lines 141-143
Respond(m) ==
    [status |-> StatusOK,
     header |-> [n \in {"Content-Type"} |-> "application/json"],
     body   |-> Marshal(m)]

(***************************************************************************)
(* The open stat file and the bufio.Reader on it (lines 64-81): the file's *)
(* offset and the text the reader holds that no read has used yet.         *)
(***************************************************************************)
\* os.Open and bufio.NewReader: offset 0, nothing held
Opened == [off |-> 0, buf |-> <<>>]

\* f.Seek(to, 0)
Seek(hd, to) == [hd EXCEPT !.off = to]

\* a reader that keeps what it holds
ResetKept(hd) == hd

\* r.Reset(f): what the reader holds is dropped
Reset(hd) == [hd EXCEPT !.buf = <<>>]

\* what reads of the reader yield when the file's content is text: what the
\* reader holds, then the file from its offset on
Unread(hd, text) == hd.buf \o SubSeq(text, hd.off + 1, Len(text))

\* after readStat: the reader has read the file to its end (the content is
\* shorter than the reader's buffer) and holds what Fscanf did not use
AfterRead(text, rest) == [off |-> Len(text), buf |-> rest]

(***************************************************************************)
(* time.Ticker (line 72): ticker.C is a channel that holds one tick; the   *)
(* runtime sends into it without blocking, so a tick that finds the        *)
(* channel full is dropped.  A channel is the number of ticks it holds.    *)
(***************************************************************************)
TickerCap == 1

\* a channel that queues every tick
SendQueued(c) == c + 1

\* the runtime's send of a tick
Send(c) == Min(c + 1, TickerCap)

\* <-ticker.C: a tick that is there is taken; with none, the goroutine
\* waits and takes the next tick as it is sent
Receive(c) == IF c > 0 THEN c - 1 ELSE 0

(***************************************************************************)
(* Bounds of the model.                                                    *)
(***************************************************************************)
\* ticks in one run, of all samplers together
MaxTicks == 2

\* requests in one run; net/http serves each in a goroutine of its own
MaxRequests == 2

\* ticks a ticker sends while its sampler is busy with one iteration
MaxOverrun == 3

\* the most devices a command line of the specifications names
MaxDevices == 2

(***************************************************************************)
(* State.                                                                  *)
(***************************************************************************)
VARIABLES
    procState,      \* "running", "panicked" (a goroutine panicked), "exited"
    mainPc,         \* main: "normalize", "spawn", "serving"
    sampleInterval, \* flag value, then normalised (nanoseconds)
    httpPort,       \* flag value, then normalised
    devices,        \* flag value, then normalised
    flags,          \* the flag values as given on the command line
    devList,        \* strings.Split(devices, ","), the range of the loop
    spawnIdx,       \* the loop's position in devList
    lastSamples,    \* map from device name to its atomic.Value (a slot number)
    value,          \* the atomic.Values, one per loop iteration
    monPc,          \* per sampler: "unborn", "start", "ticking"
    prev,           \* per sampler: the previous reading
    reader,         \* per sampler: its open stat file and bufio.Reader
    tickerC,        \* per sampler: the ticks its ticker's channel holds
    now,            \* the wall clock
    statTexts,      \* by clock value, the texts a stat file can show then
    hPc,            \* per request: "idle", "loading", "done"
    hTodo,          \* per request: the map keys the range has yet to visit
    hM,             \* per request: the map m it builds and answers with
    hResp,          \* per request: <<>>, or <<the response written>>
    published,      \* history: per sampler, what each tick read and stored
    readings,       \* history: per sampler, every reading taken and when
    tickHist,       \* history: per sampler, the ticks sent and taken
    fault,          \* history: the first failure, "none" before it
    everIn,         \* history: the keys that some answered response contained
    hSeenAtStart,   \* history: everIn when the request began
    hViews,         \* history: the store's contents seen during the request
    lastLoaded      \* history: per slot, what the latest Load returned

vars ==
    <<procState, mainPc, sampleInterval, httpPort, devices, flags, devList,
      spawnIdx, lastSamples, value, monPc, prev, now, statTexts, hPc, hTodo,
      hM, hResp, published, readings, tickHist, tickerC, reader, fault, everIn, hSeenAtStart, hViews, lastLoaded>>

configVars == <<sampleInterval, httpPort, devices, flags, devList>>

mainVars == <<mainPc, spawnIdx, lastSamples>>

samplerVars ==
    <<value, monPc, prev, now, published, readings, reader, tickerC,
      tickHist>>

handlerVars == <<hPc, hTodo, hM, hResp, everIn, hSeenAtStart, hViews, lastLoaded>>

Handlers == 1..MaxRequests

Samplers == DOMAIN monPc

\* what the slots of the map hold, by key: the store as a request sees it
StoreView(vals) == [d \in DOMAIN lastSamples |-> vals[lastSamples[d]]]

(***************************************************************************)
(* Inputs.                                                                 *)
(***************************************************************************)
Chars(str) ==
    CASE str = "sda"     -> <<"s", "d", "a">>
      [] str = "sdb"     -> <<"s", "d", "b">>
      [] str = "sda,sdb" -> <<"s", "d", "a", ",", "s", "d", "b">>
      [] str = "sda,sda" -> <<"s", "d", "a", ",", "s", "d", "a">>
      [] str = " sda "   -> <<" ", "s", "d", "a", " ">>
      [] str = "sda,"    -> <<"s", "d", "a", ",">>
      [] str = ""        -> <<>>
      [] str = " \t"     -> <<" ", "\t">>
      [] str = "9090"    -> <<"9", "0", "9", "0">>
      [] str = ":9090"   -> <<":", "9", "0", "9", "0">>
      [] str = " 9090"   -> <<" ", "9", "0", "9", "0">>
      [] str = ":9090 "  -> <<":", "9", "0", "9", "0", " ">>
      [] str = ":8080"   -> DefaultPort

\* the two readings of the scenario, and one 18014399 sectors further on
ReadingA == <<100, 0, 2000, 50, 40, 0, 800, 20, 3, 70, 90>>

ReadingB == <<110, 0, 2200, 55, 44, 0, 880, 22, 5, 77, 99>>

ReadingC == <<113, 1, 18016599, 62, 51, 2, 18015279, 23, 0, 80, 100>>

\* a line that is one field short
ShortText == StatLine(SubSeq(ReadingA, 1, NumFields - 1))

\* a line with a field that is no number
GarbledText == <<" ", "1", " ", "x", "\n">>

\* a line as newer kernels write it, with four more fields before the
\* newline
LongLine(vals) == JoinFields(vals) \o JoinFields(<<7, 8, 9, 10>>) \o <<"\n">>

\* the clock values of a run
Clock == 1..(MaxTicks + 1)

\* counters that grow with the clock, from ReadingA at 1 to ReadingB at 2
KernelReading(t) ==
    [n \in 1..NumFields |-> ReadingA[n] + (t - 1) * (ReadingB[n] - ReadingA[n])]

\* a stat file shows the counters of the moment or, broken, a short or a
\* garbled line
SpecTexts ==
    [t \in Clock |-> {StatLine(KernelReading(t)), ShortText, GarbledText}]

\* a stat file can show any of three readings, or a short line
RateTexts ==
    [t \in Clock |-> {StatLine(ReadingA), StatLine(ReadingB),
                      StatLine(ReadingC), ShortText}]

\* a stat file shows the counters of the moment, in eleven fields or in
\* fifteen
ReadTexts ==
    [t \in Clock |-> {StatLine(KernelReading(t)), LongLine(KernelReading(t))}]

\* every content a stat file shows in some specification
Contents == UNION {SpecTexts[t] \cup RateTexts[t] \cup ReadTexts[t] : t \in Clock}

\* readStat of each of them
Parsed == [t \in Contents |-> readStat(t)]

\* readStat(t), taken from the table when t is in it
readStatOf(t) == IF t \in Contents THEN Parsed[t] ELSE readStat(t)

\* the history of a ticker that has sent nothing: the ticks sent since the
\* sampler last took one, those sent before it took the last one, and the
\* iterations run since the last tick sent without waiting for a tick
NoTicks == [fires |-> 0, overrun |-> 0, immediate |-> 0]

Init0(flagSet, texts) ==
    /\ flags \in flagSet
    /\ sampleInterval = flags.sampleInterval
    /\ httpPort = flags.httpPort
    /\ devices = flags.devices
    /\ statTexts = texts
    /\ procState = "running"
    /\ mainPc = "normalize"
    /\ devList = <<>>
    /\ spawnIdx = 1
    /\ lastSamples = <<>>
    /\ value = <<>>
    /\ monPc = <<>>
    /\ prev = <<>>
    /\ now = 1
    /\ hPc = [h \in Handlers |-> "idle"]
    /\ hTodo = [h \in Handlers |-> {}]
    /\ hM = [h \in Handlers |-> <<>>]
    /\ hResp = [h \in Handlers |-> <<>>]
    /\ published = <<>>
    /\ readings = <<>>
    /\ reader = <<>>
    /\ tickerC = <<>>
    /\ tickHist = <<>>
    /\ fault = "none"
    /\ everIn = {}
    /\ hSeenAtStart = [h \in Handlers |-> {}]
    /\ hViews = [h \in Handlers |-> {}]
    /\ lastLoaded = <<>>

(***************************************************************************)
(* main (lines 35-61).                                                     *)
(***************************************************************************)
\* lines 41-53: the flag values are normalised and the device list is split
MainNormalize ==
    /\ procState = "running"
    /\ mainPc = "normalize"
    /\ httpPort' = NormPort(httpPort)
    /\ devices' = NormDevices(devices)
    /\ sampleInterval' = NormInterval(sampleInterval)
    /\ devList' = Split(devices', ",")
    /\ mainPc' = "spawn"
    /\ value' = [k \in 1..Len(devList') |-> Nil]
    /\ monPc' = [k \in 1..Len(devList') |-> "unborn"]
    /\ prev' = [k \in 1..Len(devList') |-> <<>>]
    /\ published' = [k \in 1..Len(devList') |-> <<>>]
    /\ readings' = [k \in 1..Len(devList') |-> <<>>]
    /\ reader' = [k \in 1..Len(devList') |-> Opened]
    /\ tickerC' = [k \in 1..Len(devList') |-> 0]
    /\ tickHist' = [k \in 1..Len(devList') |-> NoTicks]
    /\ lastLoaded' = [k \in 1..Len(devList') |-> Nil]
    /\ UNCHANGED <<procState, flags, spawnIdx, lastSamples, now, statTexts,
                   hPc, hTodo, hM, hResp, fault, everIn, hSeenAtStart,
                   hViews>>

\* a loop that calls monitor without the go statement in effect: no sampler
\* goroutine comes to run
MainSpawnNoGo ==
    /\ procState = "running"
    /\ mainPc = "spawn"
    /\ spawnIdx <= Len(devList)
    /\ lastSamples' =
           [d \in DOMAIN lastSamples \cup {devList[spawnIdx]} |->
               IF d = devList[spawnIdx] THEN spawnIdx ELSE lastSamples[d]]
    /\ spawnIdx' = spawnIdx + 1
    /\ UNCHANGED <<procState, mainPc, configVars, value, monPc, prev, now,
                   statTexts, published, readings, reader, tickerC, tickHist,
                   fault, handlerVars>>

\* lines 53-57, one iteration: a new atomic.Value goes into the map under
\* the device's name and the sampler goroutine is started
MainSpawn ==
    /\ procState = "running"
    /\ mainPc = "spawn"
    /\ spawnIdx <= Len(devList)
    /\ lastSamples' =
           [d \in DOMAIN lastSamples \cup {devList[spawnIdx]} |->
               IF d = devList[spawnIdx] THEN spawnIdx ELSE lastSamples[d]]
    /\ monPc' = [monPc EXCEPT ![spawnIdx] = "start"]
    /\ spawnIdx' = spawnIdx + 1
    /\ UNCHANGED <<procState, mainPc, configVars, value, prev, now, statTexts,
                   published, readings, reader, tickerC, tickHist, fault,
                   handlerVars>>

\* lines 59-60, after the loop: the server listens; when it cannot,
\* ListenAndServe returns, main returns and the process ends
MainListen ==
    /\ procState = "running"
    /\ mainPc = "spawn"
    /\ spawnIdx > Len(devList)
    /\ \E ok \in BOOLEAN :
          \/ /\ ok
             /\ mainPc' = "serving"
             /\ UNCHANGED procState
          \/ /\ ~ok
             /\ procState' = "exited"
             /\ UNCHANGED mainPc
    /\ UNCHANGED <<configVars, spawnIdx, lastSamples, samplerVars, statTexts,
                   fault, handlerVars>>

(***************************************************************************)
(* monitor (lines 63-119) and its panics.                                  *)
(***************************************************************************)
\* a failure that is survived: the goroutine carries on
PanicSurvived(why) ==
    /\ fault' = IF fault = "none" THEN why ELSE fault
    /\ UNCHANGED <<procState, configVars, mainVars, samplerVars, statTexts,
                   handlerVars>>

\* panic(err) in a goroutine ends the process
Panic(why) ==
    /\ procState' = "panicked"
    /\ fault' = IF fault = "none" THEN why ELSE fault
    /\ UNCHANGED <<configVars, mainVars, samplerVars, statTexts, handlerVars>>

\* a baseline that is stored as a snapshot, as a delta from zero
BaselineStored(k, cur) ==
    /\ value' = [value EXCEPT ![k] =
                    <<Stats([n \in 1..NumFields |-> Z(0)], cur,
                            sampleInterval, now)>>]
    /\ now' = now + 1

\* the baseline reading is kept and nothing is stored
Baseline(k, cur) == UNCHANGED <<value, now>>

\* lines 64-72: the file is opened, the baseline reading taken, the ticker
\* started
MonitorStart(k) ==
    /\ procState = "running"
    /\ monPc[k] = "start"
    /\ \E openOk \in BOOLEAN, text \in statTexts[now] :
          LET r == readStatOf(Unread(Opened, text))
          IN  \/ /\ ~openOk
                 /\ Panic("open")
              \/ /\ openOk
                 /\ ~r.ok
                 /\ Panic("read")
              \/ /\ openOk
                 /\ r.ok
                 /\ prev' = [prev EXCEPT ![k] = r.cur]
                 /\ reader' = [reader EXCEPT ![k] = AfterRead(text, r.rest)]
                 /\ readings' = [readings EXCEPT ![k] =
                        Append(@, [at |-> now, text |-> text, cur |-> r.cur])]
                 /\ monPc' = [monPc EXCEPT ![k] = "ticking"]
                 /\ Baseline(k, r.cur)
                 /\ UNCHANGED <<procState, configVars, mainVars, published,
                                tickerC, tickHist, statTexts, fault,
                                handlerVars>>

\* the ticker of sampler k sends a tick while the sampler is not waiting
\* for it: the sampler is still busy with an iteration
TickerFire(k) ==
    /\ procState = "running"
    /\ monPc[k] = "ticking"
    /\ tickHist[k].fires < MaxOverrun
    /\ tickerC' = [tickerC EXCEPT ![k] = Send(@)]
    /\ tickHist' = [tickHist EXCEPT ![k] =
           [@ EXCEPT !.fires = @ + 1, !.immediate = 0]]
    /\ UNCHANGED <<procState, configVars, mainVars, value, monPc, prev, now,
                   published, readings, reader, statTexts, fault, handlerVars>>

\* one atomic.Value made before the loop and handed to every sampler
SlotShared(k) == 1

\* the atomic.Value sampler k stores into: the one main made in the loop's
\* iteration k and passed to monitor (lines 54-56)
SlotOf(k) == k

\* a store that waits while a request is ranging over the map, as under a
\* lock the handler held for the length of a request
StoreAfterReaders(k) == \A h \in Handlers : hPc[h] # "loading"

\* what an iteration waits for besides its tick: nothing, as Seek, Reset,
\* readStat and atomic.Value's Store take no lock and wait for no goroutine
StoreReady(k) == TRUE

\* a loop that keeps its first baseline
RetainFirst(old, cur) == old

\* line 116, prev = cur: the reading becomes the baseline of the next tick
Retain(old, cur) == cur

\* the requests that are under way see the store change
ViewsAfter(vals) ==
    [h \in Handlers |->
        IF hPc[h] = "loading" THEN hViews[h] \cup {StoreView(vals)}
        ELSE hViews[h]]

\* lines 75-118, one iteration of the loop: the tick, Seek and Reset, the
\* reading, the rates, Store, and the reading kept as the next baseline
MonitorTick(k) ==
    /\ procState = "running"
    /\ monPc[k] = "ticking"
    /\ now <= MaxTicks
    /\ StoreReady(k)
    /\ \E seekOk \in BOOLEAN, text \in statTexts[now] :
          LET r     == readStatOf(Unread(Reset(Seek(reader[k], 0)), text))
              stats == Stats(prev[k], r.cur, sampleInterval, now)
          IN  \/ /\ ~seekOk
                 /\ Panic("seek")
              \/ /\ seekOk
                 /\ ~r.ok
                 /\ Panic("read")
              \/ /\ seekOk
                 /\ r.ok
                 /\ value' = [value EXCEPT ![SlotOf(k)] = Store(@, stats)]
                 /\ reader' = [reader EXCEPT ![k] = AfterRead(text, r.rest)]
                 /\ tickerC' = [tickerC EXCEPT ![k] = Receive(@)]
                 /\ tickHist' = [tickHist EXCEPT ![k] =
                        [fires     |-> 0,
                         overrun   |-> @.fires,
                         immediate |-> IF tickerC[k] > 0 THEN @.immediate + 1
                                       ELSE 0]]
                 /\ prev' = [prev EXCEPT ![k] = Retain(@, r.cur)]
                 /\ readings' = [readings EXCEPT ![k] =
                        Append(@, [at |-> now, text |-> text, cur |-> r.cur])]
                 /\ now' = now + 1
                 /\ published' = [published EXCEPT ![k] =
                        Append(@, [prev |-> prev[k], cur |-> r.cur,
                                   stats |-> stats])]
                 /\ hViews' = ViewsAfter(value')
                 /\ UNCHANGED <<procState, configVars, mainVars, monPc,
                                statTexts, fault, hPc, hTodo, hM, hResp,
                                everIn, hSeenAtStart, lastLoaded>>

\* a server started before the loop, in a goroutine of its own
AcceptingEarly == mainPc # "normalize"

\* requests are accepted once main has called http.ListenAndServe (line 60)
Accepting == mainPc = "serving"

(***************************************************************************)
(* statsHandlerAsJSON (lines 132-144).  The requests are numbered as they  *)
(* arrive.  One step is one iteration of the range over the map, the only  *)
(* place where the handler meets the samplers: the first one begins with   *)
(* line 133, the last one ends with lines 141-143.                         *)
(***************************************************************************)
HandlerLoad(h) ==
    /\ procState = "running"
    /\ Accepting
    /\ hPc[h] \in {"idle", "loading"}
    /\ IF h = 1 THEN TRUE ELSE hPc[h - 1] # "idle"
    /\ LET first == hPc[h] = "idle"
           todo  == IF first THEN DOMAIN lastSamples ELSE hTodo[h]
           m     == IF first THEN <<>> ELSE hM[h]
       IN  \E name \in todo :
              LET s  == Load(value[lastSamples[name]])
                  m1 == IF s # Nil THEN (name :> s[1]) @@ m ELSE m
              IN  /\ hTodo' = [hTodo EXCEPT ![h] = todo \ {name}]
                  /\ hM' = [hM EXCEPT ![h] = m1]
                  /\ lastLoaded' = [lastLoaded EXCEPT ![lastSamples[name]] = s]
                  /\ hSeenAtStart' =
                         IF first THEN [hSeenAtStart EXCEPT ![h] = everIn]
                         ELSE hSeenAtStart
                  /\ hViews' =
                         IF first THEN [hViews EXCEPT ![h] = {StoreView(value)}]
                         ELSE hViews
                  /\ \/ /\ todo # {name}
                        /\ hPc' = [hPc EXCEPT ![h] = "loading"]
                        /\ UNCHANGED <<everIn, hResp>>
                     \/ /\ todo = {name}
                        /\ hPc' = [hPc EXCEPT ![h] = "done"]
                        /\ hResp' = [hResp EXCEPT ![h] = <<Respond(m1)>>]
                        /\ everIn' = everIn \cup DOMAIN m1
    /\ UNCHANGED <<procState, configVars, mainVars, samplerVars, statTexts,
                   fault>>

(***************************************************************************)
(* Specifications.                                                         *)
(***************************************************************************)
Flag(interval, port, devs) ==
    [sampleInterval |-> Z(interval), httpPort |-> Chars(port),
     devices |-> Chars(devs)]

\* the whole program, for two command lines and the stat files of SpecTexts
SpecFlags == {Flag(Second, ":8080", d) : d \in {"sda,sdb", "sda,sda"}}

Init == Init0(SpecFlags, SpecTexts)

Next ==
    \/ MainNormalize
    \/ MainSpawn
    \/ MainListen
    \/ \E k \in Samplers : MonitorStart(k)
    \/ \E k \in Samplers : MonitorTick(k)
    \/ \E h \in Handlers : HandlerLoad(h)

Spec == Init /\ [][Next]_vars

\* the whole program under the scheduling of the Go runtime, which lets
\* every goroutine that can run do so in the end: main, the samplers, and
\* the handlers of the requests that have come in
LiveFlags == {Flag(Second, ":8080", d) : d \in {"sda", "sda,sdb", "sda,sda"}}

InitLive == Init0(LiveFlags, SpecTexts)

Fairness ==
    /\ WF_vars(MainNormalize)
    /\ WF_vars(MainSpawn)
    /\ WF_vars(MainListen)
    /\ \A k \in 1..MaxDevices :
          /\ WF_vars(k \in Samplers /\ MonitorStart(k))
          /\ WF_vars(k \in Samplers /\ MonitorTick(k))
    /\ \A h \in Handlers : WF_vars(hPc[h] = "loading" /\ HandlerLoad(h))

SpecLive == InitLive /\ [][Next]_vars /\ Fairness

\* main and the samplers of two devices, for the stat files of ReadTexts,
\* which are always well-formed
ReadFlags == {Flag(Second, ":8080", "sda,sdb")}

InitRead == Init0(ReadFlags, ReadTexts)

NextRead ==
    \/ MainNormalize
    \/ MainSpawn
    \/ MainListen
    \/ \E k \in Samplers : MonitorStart(k)
    \/ \E k \in Samplers : MonitorTick(k)

SpecRead == InitRead /\ [][NextRead]_vars

\* one sampler after its baseline reading, for several intervals and for
\* the stat files of RateTexts
RateIntervals == {Second, 2 * Second, Second \div 2, 3 * (Second \div 2), 3}

RateFlags == {Flag(i, ":8080", "sda") : i \in RateIntervals}

InitRate ==
    /\ flags \in RateFlags
    /\ sampleInterval = NormInterval(flags.sampleInterval)
    /\ httpPort = NormPort(flags.httpPort)
    /\ devices = NormDevices(flags.devices)
    /\ devList = Split(devices, ",")
    /\ statTexts = RateTexts
    /\ procState = "running"
    /\ mainPc = "serving"
    /\ spawnIdx = 2
    /\ lastSamples = [d \in {devList[1]} |-> 1]
    /\ value = <<Nil>>
    /\ monPc = <<"ticking">>
    /\ now = 1
    /\ \E text \in statTexts[now] :
          LET r == readStatOf(Unread(Opened, text))
          IN  /\ r.ok
              /\ prev = <<r.cur>>
              /\ reader = <<AfterRead(text, r.rest)>>
              /\ readings = << <<[at |-> now, text |-> text, cur |-> r.cur]>> >>
    /\ hPc = [h \in Handlers |-> "idle"]
    /\ hTodo = [h \in Handlers |-> {}]
    /\ hM = [h \in Handlers |-> <<>>]
    /\ hResp = [h \in Handlers |-> <<>>]
    /\ published = << <<>> >>
    /\ tickerC = <<0>>
    /\ tickHist = <<NoTicks>>
    /\ fault = "none"
    /\ everIn = {}
    /\ hSeenAtStart = [h \in Handlers |-> {}]
    /\ hViews = [h \in Handlers |-> {}]
    /\ lastLoaded = <<Nil>>

NextRate == \E k \in Samplers : MonitorTick(k)

SpecRate == InitRate /\ [][NextRate]_vars

\* one sampler and its ticker, which can send while the sampler is busy
NextTicker ==
    \/ \E k \in Samplers : TickerFire(k)
    \/ \E k \in Samplers : MonitorTick(k)

SpecTicker == InitRate /\ [][NextTicker]_vars

\* main's normalisation alone, for many command lines
ConfigIntervals == {-Second, -1, 0, 1, Second, 2 * Second}

ConfigPorts == {"9090", ":9090", " 9090", ":9090 ", "", ":8080"}

ConfigDevices == {"", " \t", "sda", " sda ", "sda,sdb", "sda,", "sda,sda"}

ConfigFlags ==
    {Flag(i, p, d) : i \in ConfigIntervals, p \in ConfigPorts,
                     d \in ConfigDevices}

InitConfig == Init0(ConfigFlags, SpecTexts)

NextConfig == MainNormalize

SpecConfig == InitConfig /\ [][NextConfig]_vars

(***************************************************************************)
(* Properties of the store as the requests see it.                         *)
(***************************************************************************)
\* the successful readStat calls of sampler k so far
ReadsDone(k) == (IF monPc[k] = "ticking" THEN 1 ELSE 0) + Len(published[k])

\* the snapshots sampler k has stored, in order
Stored(k) == [i \in 1..Len(published[k]) |-> published[k][i].stats]

\* the position among the snapshots stored by sampler k of what a Load
\* returned: 0 for nil, -1 for a value that was never stored
StoredIndex(k, got) ==
    IF got = Nil THEN 0
    ELSE IF \E i \in 1..Len(published[k]) : Stored(k)[i] = got[1]
    THEN CHOOSE i \in 1..Len(published[k]) : Stored(k)[i] = got[1]
    ELSE -1

\* the response of request h, key by key, as slot contents
RespView(h) ==
    [d \in DOMAIN lastSamples |-> IF d \in DOMAIN hM[h] THEN <<hM[h][d]>> ELSE Nil]

\* C1: a response holds a key only when the sampler that owns the key's slot
\* has taken its baseline reading and at least one more; and a key that some
\* response held is in the response of every request that began after that
\* response was written (with one snapshot: the response is a map)
C1_KeyAfterSecondRead ==
    \A h \in Handlers :
        hPc[h] = "done" =>
            /\ \A d \in DOMAIN hM[h] : ReadsDone(lastSamples[d]) >= 2
            /\ hSeenAtStart[h] \subseteq DOMAIN hM[h]

\* a request that began after a response with a key, and answered; and a
\* response without the key of a sampler that had only its baseline
C1_Witness ==
    /\ hPc[2] = "done"
    /\ hSeenAtStart[2] # {}
    /\ hPc[1] = "done"
    /\ \E d \in DOMAIN lastSamples : d \notin DOMAIN hM[1]

\* C2: every snapshot in a request's map is, in all nine fields, one of the
\* snapshots the owning sampler stored
C2_NoTornSnapshot ==
    \A h \in Handlers : \A d \in DOMAIN hM[h] :
        \E i \in 1..Len(published[lastSamples[d]]) :
            Stored(lastSamples[d])[i] = hM[h][d]

\* a request holds the second snapshot of a slot, which replaced a first one
\* that differs from it in the rates and the gauge too
C2_Witness ==
    \E h \in Handlers : \E d \in DOMAIN hM[h] :
        LET k == lastSamples[d]
        IN  /\ Len(published[k]) >= 2
            /\ hM[h][d] = Stored(k)[2]
            /\ Stored(k)[1].ReadsPerSec # Stored(k)[2].ReadsPerSec
            /\ Stored(k)[1].InFlight # Stored(k)[2].InFlight

\* C7: a failed open, rewind or read ends the process: the failing step
\* stores nothing, and once the process is gone no slot changes, no sampler
\* reads on and no request proceeds or is answered
C7_FailureIsFatal ==
    [][/\ fault' # "none" => procState' = "panicked"
       /\ fault = "none" /\ fault' # "none" =>
              UNCHANGED <<value, published, prev, hPc, hM>>
       /\ procState # "running" => UNCHANGED vars]_vars

\* a read failed after a sampler had published and while a request was
\* under way
C7_Witness ==
    /\ fault = "read"
    /\ procState = "panicked"
    /\ \E k \in Samplers : Len(published[k]) >= 1
    /\ \E h \in Handlers : hPc[h] = "loading"

\* the keys request h loads in a step
LoadedInStep(h) ==
    IF hPc[h] = "done" \/ hPc'[h] = "idle" THEN {}
    ELSE (IF hPc[h] = "idle" THEN DOMAIN lastSamples ELSE hTodo[h]) \ hTodo'[h]

\* C8: a Load returns the latest snapshot: with n publishes of the slot's
\* sampler completed it returns the n-th (nil only for n = 0), and so never
\* an older one than the Load before it returned
C8_LoadsLatest ==
    [][\A h \in Handlers : \A d \in LoadedInStep(h) :
          LET k   == lastSamples[d]
              got == RespView(h)'[d]
          IN  /\ StoredIndex(k, got) >= Len(published[k])
              /\ StoredIndex(k, got) >= StoredIndex(k, lastLoaded[k])]_vars

\* the first request got a slot's first snapshot, the second its second
C8_Witness ==
    \E d \in DOMAIN lastSamples :
        LET k == lastSamples[d]
        IN  /\ Len(published[k]) >= 2
            /\ d \in DOMAIN hM[1] /\ hM[1][d] = Stored(k)[1]
            /\ d \in DOMAIN hM[2] /\ hM[2][d] = Stored(k)[2]

\* C9 as stated: at some instant of the request the store held, for every
\* device at once, what the response reports
C9_PointInTimeView ==
    \A h \in Handlers : hPc[h] = "done" => RespView(h) \in hViews[h]

\* C9 as amended: for each device there is an instant of the request at
\* which the store held for that device what the response reports
C9_PerDeviceView ==
    \A h \in Handlers :
        hPc[h] = "done" =>
            \A d \in DOMAIN lastSamples :
                \E v \in hViews[h] : v[d] = RespView(h)[d]

\* a response for two devices that the store never held as a whole
C9_Witness ==
    \E h \in Handlers :
        /\ hPc[h] = "done"
        /\ Cardinality(DOMAIN lastSamples) = 2
        /\ RespView(h) \notin hViews[h]

(***************************************************************************)
(* Properties of the rates.                                                *)
(***************************************************************************)
\* every tick so far: what it read and what it stored
Ticks == UNION {Range(published[k]) : k \in Samplers}

ZReading(vals) == [n \in 1..NumFields |-> Z(vals[n])]

\* (cur[n] - prev[n]) * scale / S for S in seconds, in exact integers: the
\* interval is in nanoseconds, and the quotient is cut to an integer
ExactRate(e, n, scale) ==
    ZQuo(ZMul(ZMul(ZSub(Field(e.cur, n), Field(e.prev, n)), Z(scale)), Z(Second)),
         sampleInterval)

\* C3 as stated: every snapshot holds the rates of the formulas, and the
\* scenario gives 10, 102400, 5, 4, 40960, 2 and 9
C3_RatesAsFormulas ==
    \A e \in Ticks :
        /\ e.stats.ReadsPerSec = ExactRate(e, 0, 1)
        /\ e.stats.BytesReadPerSec = ExactRate(e, 2, SectorSize)
        /\ e.stats.ReadMillis = ExactRate(e, 3, 1)
        /\ e.stats.WritesPerSec = ExactRate(e, 4, 1)
        /\ e.stats.BytesWrittenPerSec = ExactRate(e, 6, SectorSize)
        /\ e.stats.WriteMillis = ExactRate(e, 7, 1)
        /\ e.stats.WaitMillis = ExactRate(e, 10, 1)
        /\ (e.prev = ZReading(ReadingA) /\ e.cur = ZReading(ReadingB)
               /\ sampleInterval = Z(Second)) =>
              /\ e.stats.ReadsPerSec = Z(10)
              /\ e.stats.BytesReadPerSec = Z(102400)
              /\ e.stats.ReadMillis = Z(5)
              /\ e.stats.WritesPerSec = Z(4)
              /\ e.stats.BytesWrittenPerSec = Z(40960)
              /\ e.stats.WriteMillis = Z(2)
              /\ e.stats.WaitMillis = Z(9)

\* the cumulative fields of a reading: all but in-flight
CumulativeFields == (0..(NumFields - 1)) \ {8}

\* C4 as stated: when no cumulative field went down (and the readings are
\* non-negative, the interval positive), no rate is negative
C4_RatesNonNegative ==
    \A e \in Ticks :
        (/\ ZLess(Z(0), sampleInterval)
         /\ \A n \in 0..(NumFields - 1) :
               ZLeq(Z(0), Field(e.prev, n)) /\ ZLeq(Z(0), Field(e.cur, n))
         /\ \A n \in CumulativeFields : ZLeq(Field(e.prev, n), Field(e.cur, n)))
        => \A f \in RateFields : ZLeq(Z(0), RateOf(e.stats, f))

\* the snapshot of the same two readings had the interval been twice as long
Doubled(e) == Stats(e.prev, e.cur, ZMul(Z(2), sampleInterval), e.stats.Timestamp)

\* C5 as stated: with twice the interval every rate is exactly half
C5_ExactlyHalf ==
    \A e \in Ticks : \A f \in RateFields :
        ZMul(Z(2), RateOf(Doubled(e), f)) = RateOf(e.stats, f)

\* C5 as amended: with twice the interval every rate is half of the rate,
\* cut to an integer toward zero
C5_HalfTruncated ==
    \A e \in Ticks : \A f \in RateFields :
        IsInt64(ZMul(Z(2), sampleInterval)) =>
            RateOf(Doubled(e), f) = ZQuo(RateOf(e.stats, f), Z(2))

\* a tick with an odd rate, one with a negative rate, and an interval that
\* is not one second
C5_Witness ==
    /\ sampleInterval # Z(Second)
    /\ \E e \in Ticks : \E f \in RateFields :
          /\ ZMul(Z(2), ZQuo(RateOf(e.stats, f), Z(2))) # RateOf(e.stats, f)
          /\ ZLess(RateOf(e.stats, f), Z(0))

\* C6: the in-flight field of a snapshot is field 8 of the reading of its
\* tick, whatever the reading before and the interval
C6_InFlightIsGauge ==
    \A e \in Ticks : e.stats.InFlight = Field(e.cur, 8)

\* a tick whose in-flight differs from the one before, with an interval
\* that is not one second
C6_Witness ==
    /\ sampleInterval # Z(Second)
    /\ \E e \in Ticks :
          /\ Field(e.cur, 8) # Field(e.prev, 8)
          /\ Field(e.cur, 8) # Z(0)

(***************************************************************************)
(* Properties of the configuration.                                        *)
(***************************************************************************)
\* what C10 says of the interval and of the device list
C10_IntervalAndDevices ==
    /\ sampleInterval =
           IF ZLeq(flags.sampleInterval, Z(0)) THEN Z(Second)
           ELSE flags.sampleInterval
    /\ devList =
           IF TrimSpace(flags.devices) = <<>> THEN <<DefaultDevices>>
           ELSE Split(TrimSpace(flags.devices), ",")

\* C10 as stated: an address without a leading ':' gets one, an address
\* with a leading ':' is unchanged
C10_Normalized ==
    mainPc # "normalize" =>
        /\ C10_IntervalAndDevices
        /\ httpPort =
               IF HasPrefix(flags.httpPort, <<":">>) THEN flags.httpPort
               ELSE <<":">> \o flags.httpPort

\* C10 as amended: the address is first trimmed of surrounding white space
C10_NormalizedTrimmed ==
    mainPc # "normalize" =>
        /\ C10_IntervalAndDevices
        /\ httpPort =
               IF HasPrefix(TrimSpace(flags.httpPort), <<":">>)
               THEN TrimSpace(flags.httpPort)
               ELSE <<":">> \o TrimSpace(flags.httpPort)

\* a command line with interval 0, an address with white space and no ':',
\* and a device list of white space only
C10_Witness ==
    /\ mainPc # "normalize"
    /\ flags.sampleInterval = Z(0)
    /\ flags.httpPort = Chars(" 9090")
    /\ flags.devices = Chars(" \t")

(***************************************************************************)
(* Properties of the startup and of who owns what.                         *)
(***************************************************************************)
\* the samplers main started for device d: iteration k of the loop starts
\* monitor on "/sys/block/" + devList[k] + "/stat"
SamplersOf(d) == {k \in Samplers : devList[k] = d}

\* C11 as stated: once main has left the loop, the keys of the map are the
\* configured device names and stay so, every name has exactly one sampler,
\* and the slot under a name changes only in a step of that sampler
C11_OneSamplerPerKey ==
    [][mainPc = "serving" =>
          /\ DOMAIN lastSamples = Range(devList)
          /\ lastSamples' = lastSamples
          /\ \A d \in DOMAIN lastSamples :
                /\ Cardinality(SamplersOf(d)) = 1
                /\ value'[lastSamples[d]] # value[lastSamples[d]] =>
                      \E k \in SamplersOf(d) :
                          Len(published'[k]) = Len(published[k]) + 1]_vars

(***************************************************************************)
(* Properties of the response.                                             *)
(***************************************************************************)
\* the response request h got
Response(h) == hResp[h][1]

\* C12: a request that is answered gets status 200 and a JSON object; a key
\* is in it exactly when the key's slot held a snapshot in the step that
\* loaded it; and while no sampler has published the object is empty
C12_OkObjectOfLoaded ==
    [][\A h \in Handlers :
          /\ \A d \in LoadedInStep(h) :
                d \in DOMAIN hM'[h] <=> value[lastSamples[d]] # Nil
          /\ hPc'[h] = "done" <=> hResp'[h] # <<>>
          /\ hResp'[h] # <<>> =>
                /\ Response(h)'.status = 200
                /\ Response(h)'.body.kind = "object"
                /\ DOMAIN Response(h)'.body.members = DOMAIN hM'[h]
                /\ (\A k \in Samplers : published'[k] = <<>>) =>
                       Response(h)'.body.members = <<>>]_vars

\* an empty object for the first request and, of two devices, an object
\* with one key for the second
C12_Witness ==
    /\ Cardinality(DOMAIN lastSamples) = 2
    /\ hPc[1] = "done"
    /\ Response(1).status = 200
    /\ Response(1).body.members = <<>>
    /\ hPc[2] = "done"
    /\ Cardinality(DOMAIN Response(2).body.members) = 1

\* the member names of the object the response holds for device d
MemberNames(h, d) ==
    LET ms == Response(h).body.members[d].members
    IN  {ms[i].name : i \in DOMAIN ms}

\* the response says it is JSON and holds, for every device in it, an
\* object of nine members
JSONOfNine(h) ==
    /\ Response(h).header["Content-Type"] = "application/json"
    /\ \A d \in DOMAIN Response(h).body.members :
          /\ Response(h).body.members[d].kind = "object"
          /\ Len(Response(h).body.members[d].members) = 9

\* C13 as stated: the members of a device's object are named timestamp,
\* reads-per-second, ..., queue-wait-milliseconds, and the response has the
\* header Content-Type: application/json
C13_HyphenedNames ==
    \A h \in Handlers :
        hResp[h] # <<>> =>
            /\ JSONOfNine(h)
            /\ \A d \in DOMAIN Response(h).body.members :
                  MemberNames(h, d) =
                      {"timestamp", "reads-per-second", "bytes-read-per-second",
                       "read-wait-milliseconds", "writes-per-second",
                       "bytes-written-per-second", "write-wait-milliseconds",
                       "in-flight", "queue-wait-milliseconds"}

\* C13 as amended: the members are named as the fields of ioStats are
C13_DeclaredNames ==
    \A h \in Handlers :
        hResp[h] # <<>> =>
            /\ JSONOfNine(h)
            /\ \A d \in DOMAIN Response(h).body.members :
                  MemberNames(h, d) =
                      {"Timestamp", "ReadsPerSec", "BytesReadPerSec",
                       "ReadMillis", "WritesPerSec", "BytesWrittenPerSec",
                       "WriteMillis", "InFlight", "WaitMillis"}

\* a response with the objects of two devices
C13_Witness ==
    \E h \in Handlers :
        /\ hResp[h] # <<>>
        /\ Cardinality(DOMAIN Response(h).body.members) = 2

(***************************************************************************)
(* Properties of the sampler's loop.                                       *)
(***************************************************************************)
\* C14: a step in which sampler k reads adds one reading to those it has
\* taken and makes it the baseline the sampler holds; the first reading
\* publishes nothing, and reading n + 1 publishes snapshot n, which is the
\* snapshot of readings n and n + 1 and of the configured interval, whenever
\* the two were read; no other step changes what the sampler has read,
\* published or holds as baseline
C14_ConsecutiveReadings ==
    [][\A k \in Samplers :
          LET n == Len(readings[k])
          IN  IF readings'[k] = readings[k]
              THEN published'[k] = published[k] /\ prev'[k] = prev[k]
              ELSE /\ Len(readings'[k]) = n + 1
                   /\ SubSeq(readings'[k], 1, n) = readings[k]
                   /\ prev'[k] = readings'[k][n + 1].cur
                   /\ Len(published'[k]) = n
                   /\ SubSeq(published'[k], 1, n - 1) = published[k]
                   /\ n > 0 =>
                         published'[k][n].stats =
                             Stats(readings[k][n].cur, readings'[k][n + 1].cur,
                                   sampleInterval,
                                   published'[k][n].stats.Timestamp)]_vars

\* a sampler with two snapshots that differ: the readings of the first were
\* taken at the same time, those of the second at different times
C14_Witness ==
    \E k \in Samplers :
        /\ Len(published[k]) = 2
        /\ readings[k][1].at = readings[k][2].at
        /\ readings[k][2].at # readings[k][3].at
        /\ readings[k][2].cur # readings[k][3].cur
        /\ published[k][1].stats.ReadsPerSec # published[k][2].stats.ReadsPerSec

\* C15: however many ticks a ticker sent while its sampler was busy, its
\* channel holds at most one, and since the last tick sent the sampler has
\* run at most one iteration without waiting for a tick
C15_TicksDoNotStack ==
    \A k \in Samplers :
        /\ tickerC[k] <= 1
        /\ tickHist[k].immediate <= 1

\* an iteration that did not wait, after one that two or more ticks were
\* sent during, and no tick is left
C15_Witness ==
    \E k \in Samplers :
        /\ tickHist[k].overrun >= 2
        /\ tickHist[k].immediate = 1
        /\ tickerC[k] = 0
        /\ Len(published[k]) = 2

\* every slot of the map holds a snapshot
AllHeld == \A d \in DOMAIN lastSamples : value[lastSamples[d]] # Nil

\* request h began when every slot of the map held a snapshot
BeganWithAllHeld(h) ==
    /\ hViews[h] # {}
    /\ \A v \in hViews[h] : \A d \in DOMAIN v : v[d] # Nil

C18_Frame ==
    [][/\ \A k \in Samplers :
             readings'[k] # readings[k] =>
                 \A j \in Samplers \ {k} :
                     /\ value'[j] = value[j]
                     /\ prev'[j] = prev[j]
                     /\ reader'[j] = reader[j]
       /\ hPc' # hPc => UNCHANGED <<value, prev, reader>>]_vars

\* both samplers of two devices have published, the second last, and a
\* request has loaded a slot since
C18_Witness ==
    /\ Cardinality(DOMAIN lastSamples) = 2
    /\ \A k \in Samplers : published[k] # <<>>
    /\ readings[2][2].at > readings[1][2].at
    /\ value[1] = <<published[1][1].stats>>
    /\ \E h \in Handlers : hPc[h] = "loading" /\ DOMAIN hM[h] # {}

(***************************************************************************)
(* Properties of the readings.                                             *)
(***************************************************************************)
\* every reading taken so far, with the time and the content read
Readings == UNION {Range(readings[k]) : k \in Samplers}

\* C19: where every content of a stat file begins with the eleven counters
\* of the moment, no read fails and every reading, the baseline and those
\* of the ticks, holds these eleven counters, whatever the reads before it
\* left in the reader; and two readings of the same content are equal
C19_ReadsFromStart ==
    /\ fault # "read"
    /\ \A e \in Readings : e.cur = ZReading(KernelReading(e.at))
    /\ \A e1, e2 \in Readings : e1.text = e2.text => e1.cur = e2.cur

\* a sampler read the same long content twice, as baseline and in its first
\* tick, and another content in its second tick, with fields left over
\* from each read
C19_Witness ==
    \E k \in Samplers :
        /\ Len(readings[k]) = 3
        /\ readings[k][1].text = readings[k][2].text
        /\ readings[k][1].text = LongLine(KernelReading(1))
        /\ readings[k][3].text = LongLine(KernelReading(2))
        /\ Len(reader[k].buf) > 1

(***************************************************************************)
(* Properties of the map.                                                  *)
(***************************************************************************)
\* C20: the map changes only in an iteration of main's loop, and then no
\* request has begun; a request begins only when the loop is over and the
\* server has been started; and no step of a sampler or of a request
\* changes the map
C20_MapWrittenBeforeServing ==
    [][/\ lastSamples' # lastSamples =>
             /\ mainPc = "spawn" /\ spawnIdx' = spawnIdx + 1
             /\ \A h \in Handlers : hPc[h] = "idle" /\ hPc'[h] = "idle"
       /\ \A h \in Handlers :
             hPc'[h] # "idle" => mainPc' = "serving" /\ spawnIdx' > Len(devList')
       /\ (readings' # readings \/ hPc' # hPc \/ mainPc = "serving") =>
             lastSamples' = lastSamples]_vars

\* a request is between two loads of a map of two keys and a sampler has
\* published
C20_Witness ==
    /\ mainPc = "serving"
    /\ Cardinality(DOMAIN lastSamples) = 2
    /\ \E h \in Handlers : hPc[h] = "loading" /\ hTodo[h] # {}
    /\ \E k \in Samplers : Len(published[k]) = 2

====
